---------------------------- MODULE Spec2Model ----------------------------
(***************************************************************************)
(* The users / stores / products REST API of src/src/index.js.             *)
(*                                                                         *)
(* Every route handler is an async function: it runs synchronously up to   *)
(* its first `await` of a data-store call, the call is executed by the     *)
(* database at some later moment (atomically), and the handler's           *)
(* continuation runs in the same step as the call's completion (nothing    *)
(* else can observe the difference).  Handlers of different requests       *)
(* interleave at their awaits.                                             *)
(*                                                                         *)
(* The data-store client (./db.js) and the schema it is generated from are *)
(* not part of the sources; their behaviour (unique email, foreign keys,   *)
(* cascading deletes, error codes) is modelled from the specification.     *)
(* The database is assumed to be reachable: a call succeeds or fails with  *)
(* one of the errors below.  Path identifiers are numerals.                *)
(*                                                                         *)
(* src/unnamed/part_000 is an earlier draft of the same file; it is not    *)
(* valid JavaScript (an unfinished app.put) and is not modelled.           *)
(***************************************************************************)
EXTENDS Integers, Sequences, FiniteSets, Bags, TLC

VARIABLES
    db,      \* the database: tables, autoincrement counters, clock
    reqs,    \* the bag of requests in flight, each with its handler's position
    last,    \* the request that completed most recently, with its response
    budget,  \* how many more requests the environment will send
    mode,    \* process.env.NODE_ENV
    n204,    \* per user id, how many DELETE /users/:id were answered 204
    e2e,     \* observer of the end-to-end scenario
    errIn,   \* an error handed to errorHandler on its own
    errOut   \* the responses errorHandler sent for errIn

vars == <<db, reqs, last, budget, mode, n204, e2e, errIn, errOut>>

------------------------------------------------------------------------------
(* Bounds *)

MaxInFlight == 2
MaxRequests == 2
MaxId == 2

RequestIds == 1..MaxId

------------------------------------------------------------------------------
(* JSON values.  A field of a request body is a sequence of length at most  *)
(* one: <<>> is undefined (not supplied), <<v>> is the value v.  Names and  *)
(* passwords are strings, e-mail addresses are sequences of characters (so  *)
(* that the pattern can be matched), ids and prices are numbers.            *)

Absent == <<>>
Some(v) == <<v>>

EmailA == <<"a", "@", "a", ".", "c", "o", "m">>
EmailB == <<"b", "@", "b", ".", "c", "o", "m">>
EmailNoDot == <<"a", "@", "a">>
EmailSpace == <<"a", " ", "@", "a", ".", "c">>
EmptyEmail == <<>>

Whitespace == {" ", "\t", "\n"}

\* !x for a string field: undefined and "" are falsy
FalsyStr(f) == f = Absent \/ f[1] = ""
\* !x for an e-mail field
FalsyEmail(f) == f = Absent \/ f[1] = EmptyEmail
\* !x for a numeric field: undefined and 0 are falsy
FalsyNum(f) == f = Absent \/ f[1] = 0

\* /^\S+@\S+\.\S+$/.test(email)
TestEmail(s) ==
    /\ \A k \in 1..Len(s) : s[k] \notin Whitespace
    /\ \E i \in 2..Len(s) : \E j \in (i + 2)..(Len(s) - 1) :
          s[i] = "@" /\ s[j] = "."

\* Number(x): NaN for undefined, the number itself otherwise.  NaN is written
\* as a pair, which no supplied value is.
NaN == <<0, 0>>
Number(f) == IF f = Absent THEN NaN ELSE Some(f[1])

\* x ? Number(x) : undefined
NumberIfTruthy(f) == IF FalsyNum(f) THEN Absent ELSE Number(f)

RECURSIVE Join(_, _)
Join(arr, sep) ==
    IF arr = <<>> THEN ""
    ELSE IF Len(arr) = 1 THEN arr[1]
    ELSE arr[1] \o sep \o Join(Tail(arr), sep)

------------------------------------------------------------------------------
(* The data store *)

EmptyDb ==
    [users |-> {}, stores |-> {}, products |-> {},
     nextUserId |-> 1, nextStoreId |-> 1, nextProductId |-> 1, clock |-> 1]

Ok(v) == [ok |-> TRUE, value |-> v]
Fail(code, message, target) ==
    [ok |-> FALSE,
     error |-> [code |-> code, message |-> message, target |-> target]]

NoRow == [id |-> 0]

\* the rows of S as a sequence of ascending id
RECURSIVE AscById(_)
AscById(S) ==
    IF S = {} THEN <<>>
    ELSE LET m == CHOOSE x \in S : \A y \in S : x.id <= y.id
         IN <<m>> \o AscById(S \ {m})

\* the rows of S as a sequence of descending creation time
RECURSIVE DescByCreatedAt(_)
DescByCreatedAt(S) ==
    IF S = {} THEN <<>>
    ELSE LET m == CHOOSE x \in S : \A y \in S :
                     \/ x.createdAt > y.createdAt
                     \/ x.createdAt = y.createdAt /\ x.id >= y.id
         IN <<m>> \o DescByCreatedAt(S \ {m})

UserById(d, id) ==
    IF \E u \in d.users : u.id = id
    THEN CHOOSE u \in d.users : u.id = id ELSE NoRow
StoreById(d, id) ==
    IF \E s \in d.stores : s.id = id
    THEN CHOOSE s \in d.stores : s.id = id ELSE NoRow
ProductById(d, id) ==
    IF \E p \in d.products : p.id = id
    THEN CHOOSE p \in d.products : p.id = id ELSE NoRow

\* a call whose arguments do not fit the schema (a required field undefined,
\* NaN for a number) is rejected with an error that has no code
Invalid(d) == [db |-> d, res |-> Fail("", "Invalid invocation", <<>>)]

\* prisma.user.create({data}) : the three fields are required, email is unique
UserCreate(d, data) ==
    IF data.name = Absent \/ data.email = Absent \/ data.password = Absent
    THEN Invalid(d)
    ELSE IF \E u \in d.users : u.email = data.email[1]
    THEN [db |-> d,
          res |-> Fail("P2002", "Unique constraint failed", <<"email">>)]
    ELSE LET row == [id |-> d.nextUserId, name |-> data.name[1],
                     email |-> data.email[1], password |-> data.password[1]]
         IN [db |-> [d EXCEPT !.users = @ \cup {row}, !.nextUserId = @ + 1,
                              !.clock = @ + 1],
             res |-> Ok(row)]

\* prisma.user.findUnique({where: {id}}) : the row or null (NoRow)
UserFindUnique(d, id) ==
    IF id = NaN THEN Invalid(d) ELSE [db |-> d, res |-> Ok(UserById(d, id[1]))]

\* prisma.user.findMany({orderBy: {id: "asc"}})
UserFindMany(d) == [db |-> d, res |-> Ok(AscById(d.users))]

\* prisma.user.delete({where: {id}}) : cascades to the stores and their products
UserDelete(d, id) ==
    IF UserById(d, id) = NoRow
    THEN [db |-> d, res |-> Fail("P2025", "Record to delete does not exist", <<>>)]
    ELSE LET gone == {s \in d.stores : s.userId = id}
         IN [db |-> [d EXCEPT
                        !.users = {u \in @ : u.id # id},
                        !.stores = @ \ gone,
                        !.products = {p \in @ : \A s \in gone : p.storeId # s.id}],
             res |-> Ok(UserById(d, id))]

\* prisma.store.create({data}) : userId references a user
StoreCreate(d, data) ==
    IF data.name = Absent \/ data.userId = NaN
    THEN Invalid(d)
    ELSE IF UserById(d, data.userId[1]) = NoRow
    THEN [db |-> d,
          res |-> Fail("P2003", "Foreign key constraint failed", <<"userId">>)]
    ELSE LET row == [id |-> d.nextStoreId, name |-> data.name[1],
                     userId |-> data.userId[1]]
         IN [db |-> [d EXCEPT !.stores = @ \cup {row}, !.nextStoreId = @ + 1,
                              !.clock = @ + 1],
             res |-> Ok(row)]

StoreFindUnique(d, id) == [db |-> d, res |-> Ok(StoreById(d, id))]

\* prisma.store.update({where: {id}, data}) : undefined fields are left alone
StoreUpdate(d, id, data) ==
    LET old == StoreById(d, id)
    IN IF old = NoRow
       THEN [db |-> d,
             res |-> Fail("P2025", "Record to update not found", <<>>)]
       ELSE IF data.userId = NaN
       THEN Invalid(d)
       ELSE IF data.userId # Absent /\ UserById(d, data.userId[1]) = NoRow
       THEN [db |-> d,
             res |-> Fail("P2003", "Foreign key constraint failed", <<"userId">>)]
       ELSE LET row == [old EXCEPT
                          !.name = IF data.name = Absent THEN @ ELSE data.name[1],
                          !.userId = IF data.userId = Absent THEN @
                                     ELSE data.userId[1]]
            IN [db |-> [d EXCEPT !.stores = (@ \ {old}) \cup {row}],
                res |-> Ok(row)]

\* prisma.store.delete({where: {id}}) : cascades to the products
StoreDelete(d, id) ==
    IF StoreById(d, id) = NoRow
    THEN [db |-> d, res |-> Fail("P2025", "Record to delete does not exist", <<>>)]
    ELSE [db |-> [d EXCEPT !.stores = {s \in @ : s.id # id},
                           !.products = {p \in @ : p.storeId # id}],
          res |-> Ok(StoreById(d, id))]

\* prisma.product.create({data}) : name, price and storeId are required,
\* NaN is no number, storeId references a store
ProductCreate(d, data) ==
    IF data.name = Absent \/ data.price = NaN \/ data.storeId = NaN
    THEN Invalid(d)
    ELSE IF StoreById(d, data.storeId[1]) = NoRow
    THEN [db |-> d,
          res |-> Fail("P2003", "Foreign key constraint failed", <<"storeId">>)]
    ELSE LET row == [id |-> d.nextProductId, name |-> data.name[1],
                     price |-> data.price[1], storeId |-> data.storeId[1],
                     createdAt |-> d.clock, updatedAt |-> data.updatedAt]
         IN [db |-> [d EXCEPT !.products = @ \cup {row},
                              !.nextProductId = @ + 1, !.clock = @ + 1],
             res |-> Ok(row)]

ProductFindMany(d) == [db |-> d, res |-> Ok(AscById(d.products))]

\* prisma.product.update({where: {id}, data}) : undefined fields are left alone
ProductUpdate(d, id, data) ==
    LET old == ProductById(d, id)
    IN IF old = NoRow
       THEN [db |-> d,
             res |-> Fail("P2025", "Record to update not found", <<>>)]
       ELSE IF data.price = NaN \/ data.storeId = NaN
       THEN Invalid(d)
       ELSE IF data.storeId # Absent /\ StoreById(d, data.storeId[1]) = NoRow
       THEN [db |-> d,
             res |-> Fail("P2003", "Foreign key constraint failed", <<"storeId">>)]
       ELSE LET row == [old EXCEPT
                          !.name = IF data.name = Absent THEN @ ELSE data.name[1],
                          !.price = IF data.price = Absent THEN @
                                    ELSE data.price[1],
                          !.storeId = IF data.storeId = Absent THEN @
                                      ELSE data.storeId[1]]
            IN [db |-> [d EXCEPT !.products = (@ \ {old}) \cup {row}],
                res |-> Ok(row)]

ProductDelete(d, id) ==
    IF ProductById(d, id) = NoRow
    THEN [db |-> d, res |-> Fail("P2025", "Record to delete does not exist", <<>>)]
    ELSE [db |-> [d EXCEPT !.products = {p \in @ : p.id # id}],
          res |-> Ok(ProductById(d, id))]

------------------------------------------------------------------------------
(* Requests and responses *)

NoResponse == [op |-> "none"]

Modes == {"development", "production", "test", "unset"}

Resp(status, body) == [status |-> status, body |-> body]

\* req.body with none of the fields the handlers read
EmptyBody ==
    [name |-> Absent, email |-> Absent, password |-> Absent,
     userId |-> Absent, price |-> Absent, storeId |-> Absent]

\* a request as received: its route, path id (0 when the route has none), body;
\* existed: whether the user a DELETE /users/:id names was stored on arrival;
\* date: new Date() as the handler of POST /products reads it
NewReq(op, id, body) ==
    [op |-> op, pc |-> "received", id |-> id, body |-> body, calls |-> 0,
     existed |-> op = "DELETE /users/:id" /\ UserById(db, id) # NoRow,
     date |-> IF op = "POST /products" THEN db.clock ELSE 0]

One(q) == SetToBag({q})

\* the error mapper without its returns: every matching branch sends
ErrorHandlerNoReturn(error, env) ==
    (IF error.code = "P2002"
     THEN <<Resp(409, [error |-> "Conflito de dados unicos",
                       detail |-> IF error.target = <<>> THEN Absent
                                  ELSE Some(Join(error.target, ", "))])>>
     ELSE <<>>)
    \o (IF error.code = "P2025"
        THEN <<Resp(404, [error |-> "Recurso nao encontrado"])>> ELSE <<>>)
    \o (IF error.code = "P2003"
        THEN <<Resp(400, [error |-> "Violacao de restricao de chave estrangeira",
                          detail |-> Some("O ID referenciado nao existe")])>>
        ELSE <<>>)
    \o <<Resp(500, [error |-> "Erro interno do servidor",
                    detail |-> IF env = "development" THEN Some(error.message)
                               ELSE Absent])>>

\* the error mapper without its foreign-key branch
ErrorHandlerWithoutForeignKey(error, env) ==
    IF error.code = "P2002"
    THEN <<Resp(409, [error |-> "Conflito de dados unicos",
                      detail |-> IF error.target = <<>> THEN Absent
                                 ELSE Some(Join(error.target, ", "))])>>
    ELSE IF error.code = "P2025"
    THEN <<Resp(404, [error |-> "Recurso nao encontrado"])>>
    ELSE <<Resp(500, [error |-> "Erro interno do servidor",
                      detail |-> IF env = "development" THEN Some(error.message)
                                 ELSE Absent])>>

\* the error mapper without its not-found branch
ErrorHandlerWithoutNotFound(error, env) ==
    IF error.code = "P2002"
    THEN <<Resp(409, [error |-> "Conflito de dados unicos",
                      detail |-> IF error.target = <<>> THEN Absent
                                 ELSE Some(Join(error.target, ", "))])>>
    ELSE IF error.code = "P2003"
    THEN <<Resp(400, [error |-> "Violacao de restricao de chave estrangeira",
                      detail |-> Some("O ID referenciado nao existe")])>>
    ELSE <<Resp(500, [error |-> "Erro interno do servidor",
                      detail |-> IF env = "development" THEN Some(error.message)
                                 ELSE Absent])>>

\* the error mapper: the responses it sends, in order
errorHandler(error, env) ==
    IF error.code = "P2002"
    THEN <<Resp(409, [error |-> "Conflito de dados unicos",
                      detail |-> IF error.target = <<>> THEN Absent
                                 ELSE Some(Join(error.target, ", "))])>>
    ELSE IF error.code = "P2025"
    THEN <<Resp(404, [error |-> "Recurso nao encontrado"])>>
    ELSE IF error.code = "P2003"
    THEN <<Resp(400, [error |-> "Violacao de restricao de chave estrangeira",
                      detail |-> Some("O ID referenciado nao existe")])>>
    ELSE <<Resp(500, [error |-> "Erro interno do servidor",
                      detail |-> IF env = "development" THEN Some(error.message)
                                 ELSE Absent])>>

\* catch (e) of the store and product routes
InlineCatch(e, what) ==
    IF e.code = "P2025"
    THEN Resp(404, [error |-> what])
    ELSE Resp(400, [error |-> e.message])

------------------------------------------------------------------------------
(* The observer of the end-to-end scenario: step k when the first k requests *)
(* answered were the scenario's, one at a time; -1 once the run has left it. *)

ScenarioUser ==
    [EmptyBody EXCEPT !.name = Some("A"), !.email = Some(EmailA),
                      !.password = Some("p")]
ScenarioStore(uid) == [EmptyBody EXCEPT !.name = Some("S"), !.userId = Some(uid)]
ScenarioProduct(sid) ==
    [EmptyBody EXCEPT !.name = Some("P"), !.price = Some(10), !.storeId = Some(sid)]

E2EOff == [step |-> -1, uid |-> 0, sid |-> 0, pid |-> 0]
E2EStart == [step |-> 0, uid |-> 0, sid |-> 0, pid |-> 0]

CreatedId(l) == IF l.status = 201 THEN l.out.id ELSE 0

Advance(e, l) ==
    IF e.step = 0 /\ l.op = "POST /users" /\ l.body = ScenarioUser
    THEN [e EXCEPT !.step = 1, !.uid = CreatedId(l)]
    ELSE IF e.step = 1 /\ l.op = "POST /stores" /\ l.body = ScenarioStore(e.uid)
    THEN [e EXCEPT !.step = 2, !.sid = CreatedId(l)]
    ELSE IF e.step = 2 /\ l.op = "GET /stores/:id" /\ l.id = e.sid
    THEN [e EXCEPT !.step = 3]
    ELSE IF e.step = 3 /\ l.op = "POST /products"
            /\ l.body = ScenarioProduct(e.sid)
    THEN [e EXCEPT !.step = 4, !.pid = CreatedId(l)]
    ELSE IF e.step = 4 /\ l.op = "GET /products"
    THEN [e EXCEPT !.step = 5]
    ELSE E2EOff

------------------------------------------------------------------------------
(* The steps of a handler *)

\* a request arrives
Receive ==
    /\ BagCardinality(reqs) < MaxInFlight
    /\ budget > 0
    /\ budget' = budget - 1

\* the response res.status(..).json(..) of the handler serving q
Send(q, resp) ==
    LET l == [op |-> q.op, id |-> q.id, body |-> q.body, calls |-> q.calls,
              existed |-> q.existed, status |-> resp.status, out |-> resp.body]
    IN /\ last' = l
       /\ n204' = IF q.op = "DELETE /users/:id" /\ resp.status = 204
                  THEN [n204 EXCEPT ![q.id] = @ + 1] ELSE n204
       /\ e2e' = Advance(e2e, l)

Called(q, pc) == [q EXCEPT !.pc = pc, !.calls = @ + 1]

\* the handler answers the request q it has just received
Reply(q, resp) == Send(q, resp) /\ UNCHANGED reqs

\* the handler issues its first data-store call for q and awaits it
Enter(q, pc) ==
    /\ reqs' = reqs (+) One(Called(q, pc))
    /\ UNCHANGED <<last, n204, e2e>>

\* the awaited call of q has returned: the handler issues the next one
Continue(q, pc) ==
    /\ reqs' = (reqs (-) One(q)) (+) One(Called(q, pc))
    /\ UNCHANGED <<last, n204, e2e>>

\* the awaited call of q has returned: the handler answers
Finish(q, resp) == Send(q, resp) /\ reqs' = reqs (-) One(q)

Awaiting(q, op, pc) == BagIn(q, reqs) /\ q.op = op /\ q.pc = pc

------------------------------------------------------------------------------
(* POST /users *)

\* the validation without the check of the password
PostUsersValidateWithoutPassword(body) ==
    IF FalsyStr(body.name) \/ FalsyEmail(body.email)
    THEN <<Resp(400, [error |->
                 "Campos obrigatorios ausentes (name, email, password)"])>>
    ELSE IF ~TestEmail(body.email[1])
    THEN <<Resp(400, [error |-> "Email em formato invalido"])>>
    ELSE <<>>

\* the 400 response of the validation, or none
PostUsersValidate(body) ==
    IF FalsyStr(body.name) \/ FalsyEmail(body.email) \/ FalsyStr(body.password)
    THEN <<Resp(400, [error |->
                 "Campos obrigatorios ausentes (name, email, password)"])>>
    ELSE IF ~TestEmail(body.email[1])
    THEN <<Resp(400, [error |-> "Email em formato invalido"])>>
    ELSE <<>>

\* the catch without the branch for the unique constraint
PostUsersCatchWithoutConflict(error) ==
    Resp(500, [error |-> "Erro ao criar usuario", detail |-> error.message])

PostUsersCatch(error) ==
    IF error.code = "P2002"
    THEN Resp(409, [error |-> "E-mail ja cadastrado", detail |-> error.target])
    ELSE Resp(500, [error |-> "Erro ao criar usuario", detail |-> error.message])

PostUsers(body) ==
    /\ Receive
    /\ LET q == NewReq("POST /users", 0, body)
           bad == PostUsersValidate(body)
       IN IF bad # <<>> THEN Reply(q, bad[1]) ELSE Enter(q, "create")
    /\ UNCHANGED <<db, mode, errIn, errOut>>

PostUsersCreate(q) ==
    /\ Awaiting(q, "POST /users", "create")
    /\ LET x == UserCreate(db, [name |-> q.body.name, email |-> q.body.email,
                                password |-> q.body.password])
       IN /\ db' = x.db
          /\ IF x.res.ok THEN Finish(q, Resp(201, x.res.value))
             ELSE Finish(q, PostUsersCatch(x.res.error))
    /\ UNCHANGED <<budget, mode, errIn, errOut>>

(* GET /users *)

GetUsers ==
    /\ Receive
    /\ Enter(NewReq("GET /users", 0, EmptyBody), "findMany")
    /\ UNCHANGED <<db, mode, errIn, errOut>>

GetUsersFindMany(q) ==
    /\ Awaiting(q, "GET /users", "findMany")
    /\ LET x == UserFindMany(db)
       IN /\ db' = x.db
          /\ IF x.res.ok THEN Finish(q, Resp(200, x.res.value))
             ELSE Finish(q, errorHandler(x.res.error, mode)[1])
    /\ UNCHANGED <<budget, mode, errIn, errOut>>

(* DELETE /users/:id *)

DeleteUsersId(id) ==
    /\ Receive
    /\ Enter(NewReq("DELETE /users/:id", id, EmptyBody), "findUnique")
    /\ UNCHANGED <<db, mode, errIn, errOut>>

DeleteUsersIdFindUnique(q) ==
    /\ Awaiting(q, "DELETE /users/:id", "findUnique")
    /\ LET x == UserFindUnique(db, Some(q.id))
       IN /\ db' = x.db
          /\ IF ~x.res.ok THEN Finish(q, errorHandler(x.res.error, mode)[1])
             ELSE IF x.res.value = NoRow
             THEN Finish(q, Resp(404, [error |-> "Usuario nao encontrado"]))
             ELSE Continue(q, "delete")
    /\ UNCHANGED <<budget, mode, errIn, errOut>>

\* the handler answering 204 without issuing the delete
DeleteUsersIdDeleteSkipped(q) ==
    /\ Awaiting(q, "DELETE /users/:id", "delete")
    /\ db' = db
    /\ Finish(q, Resp(204, Absent))
    /\ UNCHANGED <<budget, mode, errIn, errOut>>

DeleteUsersIdDelete(q) ==
    /\ Awaiting(q, "DELETE /users/:id", "delete")
    /\ LET x == UserDelete(db, q.id)
       IN /\ db' = x.db
          /\ IF x.res.ok THEN Finish(q, Resp(204, Absent))
             ELSE Finish(q, errorHandler(x.res.error, mode)[1])
    /\ UNCHANGED <<budget, mode, errIn, errOut>>

------------------------------------------------------------------------------
(* POST /stores *)

PostStoresValidate(body) ==
    IF FalsyStr(body.name) \/ FalsyNum(body.userId)
    THEN <<Resp(400, [error |-> "Campos obrigatorios ausentes",
                      detail |-> Some("name e userId sao obrigatorios")])>>
    ELSE <<>>

\* include: {user: true}
IncludeUser(d, store) ==
    [id |-> store.id, name |-> store.name, userId |-> store.userId,
     user |-> UserById(d, store.userId)]

PostStores(body) ==
    /\ Receive
    /\ LET q == NewReq("POST /stores", 0, body)
           bad == PostStoresValidate(body)
       IN IF bad # <<>> THEN Reply(q, bad[1]) ELSE Enter(q, "findUnique")
    /\ UNCHANGED <<db, mode, errIn, errOut>>

PostStoresFindUnique(q) ==
    /\ Awaiting(q, "POST /stores", "findUnique")
    /\ LET x == UserFindUnique(db, Number(q.body.userId))
       IN /\ db' = x.db
          /\ IF ~x.res.ok THEN Finish(q, errorHandler(x.res.error, mode)[1])
             ELSE IF x.res.value = NoRow
             THEN Finish(q, Resp(404, [error |-> "Usuario nao encontrado"]))
             ELSE Continue(q, "create")
    /\ UNCHANGED <<budget, mode, errIn, errOut>>

PostStoresCreate(q) ==
    /\ Awaiting(q, "POST /stores", "create")
    /\ LET x == StoreCreate(db, [name |-> q.body.name,
                                 userId |-> Number(q.body.userId)])
       IN /\ db' = x.db
          /\ IF x.res.ok
             THEN Finish(q, Resp(201, IncludeUser(x.db, x.res.value)))
             ELSE Finish(q, errorHandler(x.res.error, mode)[1])
    /\ UNCHANGED <<budget, mode, errIn, errOut>>

(* GET /stores/:id *)

\* include: {user: {select: id, name, email, ...},
\*           products: {orderBy: {createdAt: "desc"}}}
IncludeOwnerAndProducts(d, store) ==
    LET u == UserById(d, store.userId)
    IN [id |-> store.id, name |-> store.name, userId |-> store.userId,
        user |-> [id |-> u.id, name |-> u.name, email |-> u.email],
        products |-> DescByCreatedAt({p \in d.products : p.storeId = store.id})]

\* the response without the check for null: res.json(null)
GetStoresIdResponseUnchecked(d, store) ==
    IF store = NoRow THEN Resp(200, NoRow)
    ELSE Resp(200, IncludeOwnerAndProducts(d, store))

GetStoresIdResponse(d, store) ==
    IF store = NoRow
    THEN Resp(404, [error |-> "Loja nao encontrada"])
    ELSE Resp(200, IncludeOwnerAndProducts(d, store))

GetStoresId(id) ==
    /\ Receive
    /\ Enter(NewReq("GET /stores/:id", id, EmptyBody), "findUnique")
    /\ UNCHANGED <<db, mode, errIn, errOut>>

GetStoresIdFindUnique(q) ==
    /\ Awaiting(q, "GET /stores/:id", "findUnique")
    /\ LET x == StoreFindUnique(db, q.id)
       IN /\ db' = x.db
          /\ IF x.res.ok THEN Finish(q, GetStoresIdResponse(x.db, x.res.value))
             ELSE Finish(q, errorHandler(x.res.error, mode)[1])
    /\ UNCHANGED <<budget, mode, errIn, errOut>>

(* PUT /stores/:id *)

\* the data with userId converted whether supplied or not
PutStoresDataUnguarded(body) ==
    [name |-> body.name, userId |-> Number(body.userId)]

PutStoresData(body) ==
    [name |-> body.name, userId |-> NumberIfTruthy(body.userId)]

PutStoresId(id, body) ==
    /\ Receive
    /\ Enter(NewReq("PUT /stores/:id", id, body), "update")
    /\ UNCHANGED <<db, mode, errIn, errOut>>

PutStoresIdUpdate(q) ==
    /\ Awaiting(q, "PUT /stores/:id", "update")
    /\ LET x == StoreUpdate(db, q.id, PutStoresData(q.body))
       IN /\ db' = x.db
          /\ IF x.res.ok THEN Finish(q, Resp(200, x.res.value))
             ELSE Finish(q, InlineCatch(x.res.error, "Loja nao encontrada"))
    /\ UNCHANGED <<budget, mode, errIn, errOut>>

(* DELETE /stores/:id *)

DeleteStoresId(id) ==
    /\ Receive
    /\ Enter(NewReq("DELETE /stores/:id", id, EmptyBody), "delete")
    /\ UNCHANGED <<db, mode, errIn, errOut>>

DeleteStoresIdDelete(q) ==
    /\ Awaiting(q, "DELETE /stores/:id", "delete")
    /\ LET x == StoreDelete(db, q.id)
       IN /\ db' = x.db
          /\ IF x.res.ok THEN Finish(q, Resp(204, Absent))
             ELSE Finish(q, InlineCatch(x.res.error, "Loja nao encontrada"))
    /\ UNCHANGED <<budget, mode, errIn, errOut>>

------------------------------------------------------------------------------
(* POST /products *)

PostProductsData(body, date) ==
    [name |-> body.name, price |-> Number(body.price),
     storeId |-> Number(body.storeId), updatedAt |-> date]

PostProducts(body) ==
    /\ Receive
    /\ Enter(NewReq("POST /products", 0, body), "create")
    /\ UNCHANGED <<db, mode, errIn, errOut>>

PostProductsCreate(q) ==
    /\ Awaiting(q, "POST /products", "create")
    /\ LET x == ProductCreate(db, PostProductsData(q.body, q.date))
       IN /\ db' = x.db
          /\ IF x.res.ok THEN Finish(q, Resp(201, x.res.value))
             ELSE Finish(q, Resp(400, [error |-> x.res.error.message]))
    /\ UNCHANGED <<budget, mode, errIn, errOut>>

(* GET /products *)

\* include: {store: true}
IncludeStoreOnly(d, p) ==
    [id |-> p.id, name |-> p.name, price |-> p.price, storeId |-> p.storeId,
     createdAt |-> p.createdAt, updatedAt |-> p.updatedAt,
     store |-> StoreById(d, p.storeId)]

\* include: {store: {include: {user: true}}}
IncludeStoreAndUser(d, p) ==
    [id |-> p.id, name |-> p.name, price |-> p.price, storeId |-> p.storeId,
     createdAt |-> p.createdAt, updatedAt |-> p.updatedAt,
     store |-> IncludeUser(d, StoreById(d, p.storeId))]

GetProducts ==
    /\ Receive
    /\ Enter(NewReq("GET /products", 0, EmptyBody), "findMany")
    /\ UNCHANGED <<db, mode, errIn, errOut>>

GetProductsFindMany(q) ==
    /\ Awaiting(q, "GET /products", "findMany")
    /\ LET x == ProductFindMany(db)
       IN /\ db' = x.db
          /\ IF x.res.ok
             THEN Finish(q, Resp(200, [i \in 1..Len(x.res.value) |->
                                         IncludeStoreAndUser(x.db, x.res.value[i])]))
             ELSE Finish(q, Resp(400, [error |-> x.res.error.message]))
    /\ UNCHANGED <<budget, mode, errIn, errOut>>

(* PUT /products/:id *)

PutProductsData(body) ==
    [name |-> body.name, price |-> NumberIfTruthy(body.price),
     storeId |-> NumberIfTruthy(body.storeId)]

PutProductsId(id, body) ==
    /\ Receive
    /\ Enter(NewReq("PUT /products/:id", id, body), "update")
    /\ UNCHANGED <<db, mode, errIn, errOut>>

PutProductsIdUpdate(q) ==
    /\ Awaiting(q, "PUT /products/:id", "update")
    /\ LET x == ProductUpdate(db, q.id, PutProductsData(q.body))
       IN /\ db' = x.db
          /\ IF x.res.ok THEN Finish(q, Resp(200, x.res.value))
             ELSE Finish(q, InlineCatch(x.res.error, "Produto nao encontrado"))
    /\ UNCHANGED <<budget, mode, errIn, errOut>>

(* DELETE /products/:id *)

DeleteProductsId(id) ==
    /\ Receive
    /\ Enter(NewReq("DELETE /products/:id", id, EmptyBody), "delete")
    /\ UNCHANGED <<db, mode, errIn, errOut>>

DeleteProductsIdDelete(q) ==
    /\ Awaiting(q, "DELETE /products/:id", "delete")
    /\ LET x == ProductDelete(db, q.id)
       IN /\ db' = x.db
          /\ IF x.res.ok THEN Finish(q, Resp(204, Absent))
             ELSE Finish(q, InlineCatch(x.res.error, "Produto nao encontrado"))
    /\ UNCHANGED <<budget, mode, errIn, errOut>>

------------------------------------------------------------------------------
(* The requests the environment sends *)

ValidUserA == ScenarioUser
ValidUserB == [ScenarioUser EXCEPT !.email = Some(EmailB)]

\* two complete bodies, the empty body, and the first complete body with one
\* field missing, empty or malformed
UserBodies ==
    {ValidUserA, ValidUserB, EmptyBody}
    \cup {[ValidUserA EXCEPT !.name = v] : v \in {Absent, Some("")}}
    \cup {[ValidUserA EXCEPT !.email = v] :
             v \in {Absent, Some(EmptyEmail), Some(EmailNoDot), Some(EmailSpace)}}
    \cup {[ValidUserA EXCEPT !.password = v] : v \in {Absent, Some("")}}

IdFields == {Some(i) : i \in RequestIds}

StoreBodies ==
    {ScenarioStore(i) : i \in RequestIds}
    \cup {[ScenarioStore(1) EXCEPT !.name = v] : v \in {Absent, Some("")}}
    \cup {[ScenarioStore(1) EXCEPT !.userId = v] : v \in {Absent, Some(0)}}

StoreUpdates ==
    {[EmptyBody EXCEPT !.name = n, !.userId = u] :
        n \in {Absent, Some("T")}, u \in {Absent, Some(0)}}
    \cup {[EmptyBody EXCEPT !.userId = u] : u \in IdFields}

Prices == {0, 20}

ProductBodies ==
    {[ScenarioProduct(i) EXCEPT !.price = Some(p)] : i \in RequestIds, p \in {0, 10}}
    \cup {[ScenarioProduct(1) EXCEPT !.name = Absent],
          [ScenarioProduct(1) EXCEPT !.price = Absent],
          [ScenarioProduct(1) EXCEPT !.storeId = Absent]}

ProductUpdates ==
    {[EmptyBody EXCEPT !.name = n, !.price = p] :
        n \in {Absent, Some("Q")}, p \in {Absent} \cup {Some(v) : v \in Prices}}
    \cup {[EmptyBody EXCEPT !.storeId = s] : s \in IdFields}

\* the database after the end-to-end scenario: one user, one store, one product
SeedDb ==
    [users |-> {[id |-> 1, name |-> "A", email |-> EmailA, password |-> "p"]},
     stores |-> {[id |-> 1, name |-> "S", userId |-> 1]},
     products |-> {[id |-> 1, name |-> "P", price |-> 10, storeId |-> 1,
                    createdAt |-> 3, updatedAt |-> 3]},
     nextUserId |-> 2, nextStoreId |-> 2, nextProductId |-> 2, clock |-> 4]

NoError == [code |-> "", message |-> "", target |-> <<>>]

\* The database starts empty or as the end-to-end scenario leaves it.  No
\* response of the routes reads the mode unless a call fails with an error
\* other than P2002, P2025 and P2003; two modes are enough here, SpecErr has
\* them all.
Init ==
    /\ db \in {EmptyDb, SeedDb}
    /\ reqs = EmptyBag
    /\ last = NoResponse
    /\ budget = MaxRequests
    /\ mode \in {"development", "production"}
    /\ n204 = [i \in RequestIds |-> 0]
    /\ e2e = E2EOff
    /\ errIn = NoError
    /\ errOut = <<>>

Next ==
    \/ \E body \in UserBodies : PostUsers(body)
    \/ GetUsers
    \/ \E id \in RequestIds : DeleteUsersId(id)
    \/ \E body \in StoreBodies : PostStores(body)
    \/ \E id \in RequestIds : GetStoresId(id)
    \/ \E id \in RequestIds : \E body \in StoreUpdates : PutStoresId(id, body)
    \/ \E id \in RequestIds : DeleteStoresId(id)
    \/ \E body \in ProductBodies : PostProducts(body)
    \/ GetProducts
    \/ \E id \in RequestIds : \E body \in ProductUpdates : PutProductsId(id, body)
    \/ \E id \in RequestIds : DeleteProductsId(id)
    \/ \E q \in BagToSet(reqs) : PostUsersCreate(q)
    \/ \E q \in BagToSet(reqs) : GetUsersFindMany(q)
    \/ \E q \in BagToSet(reqs) : DeleteUsersIdFindUnique(q)
    \/ \E q \in BagToSet(reqs) : DeleteUsersIdDelete(q)
    \/ \E q \in BagToSet(reqs) : PostStoresFindUnique(q)
    \/ \E q \in BagToSet(reqs) : PostStoresCreate(q)
    \/ \E q \in BagToSet(reqs) : GetStoresIdFindUnique(q)
    \/ \E q \in BagToSet(reqs) : PutStoresIdUpdate(q)
    \/ \E q \in BagToSet(reqs) : DeleteStoresIdDelete(q)
    \/ \E q \in BagToSet(reqs) : PostProductsCreate(q)
    \/ \E q \in BagToSet(reqs) : GetProductsFindMany(q)
    \/ \E q \in BagToSet(reqs) : PutProductsIdUpdate(q)
    \/ \E q \in BagToSet(reqs) : DeleteProductsIdDelete(q)

Spec == Init /\ [][Next]_vars

------------------------------------------------------------------------------
(* The end-to-end scenario on its own: from the empty database, one request  *)
(* at a time, for as long as the requests answered are the scenario's.       *)

ScenarioRoutes ==
    <<"POST /users", "POST /stores", "GET /stores/:id", "POST /products",
      "GET /products">>

InitE2E ==
    /\ db = EmptyDb
    /\ reqs = EmptyBag
    /\ last = NoResponse
    /\ budget = Len(ScenarioRoutes)
    /\ mode \in {"development", "production"}
    /\ n204 = [i \in RequestIds |-> 0]
    /\ e2e = E2EStart
    /\ errIn = NoError
    /\ errOut = <<>>

\* the step A, taken while the run is the scenario and alone in flight
OnTrack(A) == e2e.step >= 0 /\ A /\ BagCardinality(reqs') <= 1

NextE2E ==
    \/ \E body \in UserBodies : OnTrack(PostUsers(body))
    \/ OnTrack(GetUsers)
    \/ \E id \in RequestIds : OnTrack(DeleteUsersId(id))
    \/ \E body \in StoreBodies : OnTrack(PostStores(body))
    \/ \E id \in RequestIds : OnTrack(GetStoresId(id))
    \/ \E id \in RequestIds : \E body \in StoreUpdates : OnTrack(PutStoresId(id, body))
    \/ \E id \in RequestIds : OnTrack(DeleteStoresId(id))
    \/ \E body \in ProductBodies : OnTrack(PostProducts(body))
    \/ OnTrack(GetProducts)
    \/ \E id \in RequestIds : \E body \in ProductUpdates : OnTrack(PutProductsId(id, body))
    \/ \E id \in RequestIds : OnTrack(DeleteProductsId(id))
    \/ \E q \in BagToSet(reqs) : OnTrack(PostUsersCreate(q))
    \/ \E q \in BagToSet(reqs) : OnTrack(GetUsersFindMany(q))
    \/ \E q \in BagToSet(reqs) : OnTrack(DeleteUsersIdFindUnique(q))
    \/ \E q \in BagToSet(reqs) : OnTrack(DeleteUsersIdDelete(q))
    \/ \E q \in BagToSet(reqs) : OnTrack(PostStoresFindUnique(q))
    \/ \E q \in BagToSet(reqs) : OnTrack(PostStoresCreate(q))
    \/ \E q \in BagToSet(reqs) : OnTrack(GetStoresIdFindUnique(q))
    \/ \E q \in BagToSet(reqs) : OnTrack(PutStoresIdUpdate(q))
    \/ \E q \in BagToSet(reqs) : OnTrack(DeleteStoresIdDelete(q))
    \/ \E q \in BagToSet(reqs) : OnTrack(PostProductsCreate(q))
    \/ \E q \in BagToSet(reqs) : OnTrack(GetProductsFindMany(q))
    \/ \E q \in BagToSet(reqs) : OnTrack(PutProductsIdUpdate(q))
    \/ \E q \in BagToSet(reqs) : OnTrack(DeleteProductsIdDelete(q))

SpecE2E == InitE2E /\ [][NextE2E]_vars

------------------------------------------------------------------------------
(* The error mapper on its own: applied to each error under each mode.       *)

Errors ==
    [code : {"P2002", "P2025", "P2003", "P2000", ""},
     message : {"connection lost", "invalid invocation"},
     target : {<<>>, <<"email">>, <<"email", "name">>}]

InitErr ==
    /\ db = EmptyDb
    /\ reqs = EmptyBag
    /\ last = NoResponse
    /\ budget = 0
    /\ mode \in Modes
    /\ n204 = [i \in RequestIds |-> 0]
    /\ e2e = E2EOff
    /\ errIn \in Errors
    /\ errOut = <<>>

HandleError ==
    /\ errOut = <<>>
    /\ errOut' = errorHandler(errIn, mode)
    /\ UNCHANGED <<db, reqs, last, budget, mode, n204, e2e, errIn>>

NextErr == HandleError

SpecErr == InitErr /\ [][NextErr]_vars

------------------------------------------------------------------------------
(* Properties *)

\* this step is the last one of the handler serving q: its answer is last'
Completes(q) == BagIn(q, reqs) /\ reqs' = reqs (-) One(q)

EmailTaken(d, body) == \E u \in d.users : u.email = body.email[1]

\* C1: a POST /users whose insert is attempted while a stored user has its
\* email is answered 409 (never 201) and stores nothing; no two stored users
\* ever share an email.
DuplicateEmailConflict ==
    [][/\ \A q \in BagToSet(reqs) :
            (q.op = "POST /users" /\ Completes(q) /\ EmailTaken(db, q.body))
            => (last'.status = 409 /\ last'.status # 201 /\ db' = db)
       /\ \A u, v \in db'.users : u.email = v.email => u.id = v.id]_vars

DuplicateEmailConflictWitness ==
    /\ last.op = "POST /users"
    /\ last.status = 409
    /\ last.calls = 1
    /\ EmailTaken(db, last.body)

\* C2: every store references a stored user and every product a stored store;
\* once DELETE /users/:id has answered 204, no store of that user and no
\* product of such a store is stored.
ReferentialIntegrity ==
    /\ \A s \in db.stores : UserById(db, s.userId) # NoRow
    /\ \A p \in db.products : StoreById(db, p.storeId) # NoRow
    /\ (last.op = "DELETE /users/:id" /\ last.status = 204)
       => /\ UserById(db, last.id) = NoRow
          /\ \A s \in db.stores : s.userId # last.id
          /\ \A p \in db.products : StoreById(db, p.storeId).userId # last.id

\* a user that owned a store with a product was deleted, and both went along
ReferentialIntegrityWitness ==
    /\ last.op = "DELETE /users/:id"
    /\ last.status = 204
    /\ db.nextStoreId > 1 /\ db.stores = {}
    /\ db.nextProductId > 1 /\ db.products = {}

\* C3 as claimed: a POST /stores that passed the validation and is answered
\* while the user it names is not stored is answered 404 and creates no store.
MissingUserAlways404 ==
    [][\A q \in BagToSet(reqs) :
          (q.op = "POST /stores" /\ Completes(q)
           /\ UserById(db, q.body.userId[1]) = NoRow)
          => (last'.status = 404 /\ db'.stores = db.stores)]_vars

\* C3 as amended: such a request creates no store; it is answered 404 when the
\* user is missing at the lookup, and 400 (foreign-key violation) when the
\* lookup found the user and the user was deleted before the insert.
MissingUserNoStore ==
    [][\A q \in BagToSet(reqs) :
          (q.op = "POST /stores" /\ Completes(q)
           /\ UserById(db, q.body.userId[1]) = NoRow)
          => /\ db' = db
             /\ q.pc = "findUnique" => last'.status = 404
             /\ q.pc = "create" => last'.status = 400]_vars

\* the insert of a POST /stores failed after its lookup had found the user
MissingUserNoStoreWitness ==
    /\ last.op = "POST /stores"
    /\ last.calls = 2
    /\ last.status = 400
    /\ UserById(db, last.body.userId[1]) = NoRow

\* C4: PUT /stores/:id on a stored store with only name supplied is answered
\* 200, sets the name, and changes nothing else of the database.
StoreNameOnlyUpdate ==
    [][\A q \in BagToSet(reqs) :
          (q.op = "PUT /stores/:id" /\ Completes(q)
           /\ q.body.name # Absent /\ q.body.userId = Absent
           /\ StoreById(db, q.id) # NoRow)
          => LET old == StoreById(db, q.id)
                 new == [old EXCEPT !.name = q.body.name[1]]
             IN /\ last'.status = 200
                /\ last'.out = new
                /\ new.userId = old.userId
                /\ db' = [db EXCEPT !.stores = (@ \ {old}) \cup {new}]]_vars

StoreNameOnlyUpdateWitness ==
    /\ last.op = "PUT /stores/:id"
    /\ last.status = 200
    /\ last.body.name = Some("T") /\ last.body.userId = Absent
    /\ StoreById(db, last.id) # NoRow
    /\ StoreById(db, last.id).name = "T"
    /\ db.products # {}

\* C5 as claimed: PUT /products/:id on a stored product answered 200 has
\* stored every supplied field (the price whatever its value, 0 included) and
\* kept the others; for an id that matches no product it is answered 404 and
\* changes nothing.
ProductUpdateAppliesFields ==
    [][\A q \in BagToSet(reqs) :
          (q.op = "PUT /products/:id" /\ Completes(q))
          => LET old == ProductById(db, q.id)
                 new == ProductById(db', q.id)
             IN IF old = NoRow
                THEN last'.status = 404 /\ db' = db
                ELSE last'.status = 200
                     => /\ new.price = IF q.body.price = Absent THEN old.price
                                       ELSE q.body.price[1]
                        /\ new.name = IF q.body.name = Absent THEN old.name
                                      ELSE q.body.name[1]
                        /\ new.storeId = IF q.body.storeId = Absent
                                         THEN old.storeId
                                         ELSE q.body.storeId[1]]_vars

LacksField(body) ==
    FalsyStr(body.name) \/ FalsyEmail(body.email) \/ FalsyStr(body.password)

\* C7: a POST /users lacking name, email or password (absent or empty) is
\* answered 400 on arrival: it never awaits a data-store call, none was issued
\* for it, and the step that answers it leaves the database as it was.
MissingFieldRejected ==
    [][/\ \A q \in BagToSet(reqs') : q.op = "POST /users" => ~LacksField(q.body)
       /\ (last'.op = "POST /users" /\ LacksField(last'.body))
          => /\ last'.status = 400
             /\ last'.calls = 0
             /\ (budget' # budget /\ reqs' = reqs) => db' = db]_vars

MissingFieldRejectedWitness ==
    /\ last.op = "POST /users"
    /\ last.body.password = Some("")
    /\ last.status = 400
    /\ last.calls = 0
    /\ db.users # {}

\* C8: from the empty database, POST /users, POST /stores, GET /stores/:id,
\* POST /products, GET /products, one after the other, are answered 201, 201,
\* 200 with the owner embedded and no products, 201, and 200 with a list
\* holding the product nested with its store and that store's user.
EndToEnd ==
    /\ e2e.step = 1 => last.status = 201 /\ last.out.id = e2e.uid /\ e2e.uid > 0
    /\ e2e.step = 2 => last.status = 201 /\ last.out.id = e2e.sid /\ e2e.sid > 0
                       /\ last.out.userId = e2e.uid
    /\ e2e.step = 3 => /\ last.status = 200
                       /\ last.out.id = e2e.sid
                       /\ last.out.user.id = e2e.uid
                       /\ last.out.user.email = EmailA
                       /\ last.out.products = <<>>
    /\ e2e.step = 4 => last.status = 201 /\ last.out.id = e2e.pid /\ e2e.pid > 0
                       /\ last.out.price = 10 /\ last.out.storeId = e2e.sid
    /\ e2e.step = 5 => /\ last.status = 200
                       /\ \E i \in 1..Len(last.out) :
                             /\ last.out[i].id = e2e.pid
                             /\ last.out[i].store.id = e2e.sid
                             /\ "user" \in DOMAIN last.out[i].store
                             /\ last.out[i].store.user.id = e2e.uid

EndToEndWitness == e2e.step = 5 /\ db = SeedDb

StatusOf(code) ==
    CASE code = "P2002" -> 409
      [] code = "P2025" -> 404
      [] code = "P2003" -> 400
      [] OTHER -> 500

\* C9: the error mapper sends exactly one response; its status is 409 for
\* P2002, 404 for P2025, 400 for P2003 and 500 for anything else; a 500 body
\* carries a detail only when the mode is not production, and the detail is
\* the error's message.
ErrorMapping ==
    errOut # <<>>
    => /\ Len(errOut) = 1
       /\ errOut[1].status = StatusOf(errIn.code)
       /\ (errOut[1].status = 500 /\ errOut[1].body.detail # Absent)
          => (mode # "production" /\ errOut[1].body.detail = Some(errIn.message))

ErrorMappingWitness ==
    /\ errOut # <<>>
    /\ errOut[1].status = 500
    /\ errOut[1].body.detail # Absent

\* C10: every DELETE /users/:id is answered 204 or 404; no user id is
\* answered 204 twice; and once a request that arrived while the user was
\* stored has been answered, exactly one request for that id was answered 204.
ConcurrentDeleteUser ==
    /\ \A i \in RequestIds : n204[i] <= 1
    /\ last.op = "DELETE /users/:id"
       => /\ last.status \in {204, 404}
          /\ last.existed => n204[last.id] = 1

\* a request that found the user at its lookup lost the delete to another
ConcurrentDeleteUserWitness ==
    /\ last.op = "DELETE /users/:id"
    /\ last.existed
    /\ last.calls = 2
    /\ last.status = 404
    /\ n204[last.id] = 1

==============================================================================
